---- MODULE Spec2Model ----
(***************************************************************************)
(* A model of finwrap: the currency rate resolver (currency.py), the       *)
(* Account / AccountCollection expression composer (models.py) and the     *)
(* Bagels export reconciler (export/bagels.py).                            *)
(*                                                                         *)
(* Optional values (float | None) are sequences: <<>> is None, <<x>> is x. *)
(* Floats are integers; amounts are counted in hundredths.                 *)
(***************************************************************************)
EXTENDS Integers, Sequences, FiniteSets, TLC

VARIABLES
    cache,        \* functools.cache of get_currency_rate: call key -> returned value
    trace,        \* the get_currency_rate calls so far: key, fetched or not, outcome
    lastCall,     \* the last operation, when a direct call of get_currency_rate
    lastEval,     \* the last operation, when an evaluation of Currency.rate
    lastAmount,   \* the last coercion of a textual amount by Account.amount
    lastData,     \* the last AccountCollection.get_data(), collected
    store,        \* the Bagels database: its account, category and record tables
    exports,      \* number of save_to_bagel calls so far
    lastExport    \* the last save_to_bagel call: what it saw and did

vars == <<cache, trace, lastCall, lastEval, lastAmount, lastData,
          store, exports, lastExport>>

----------------------------------------------------------------------------
(* Bounds *)

MaxCalls == 2     \* get_currency_rate calls in one behaviour
MaxRows == 2      \* rows of a frame a rate expression is evaluated on
MaxLen == 5       \* characters of a textual amount
MaxAccounts == 2  \* accounts of an AccountCollection
MaxRecords == 1   \* records entered in Bagels by hand
MaxExports == 2   \* save_to_bagel calls in one behaviour

----------------------------------------------------------------------------
(* Values *)

None == <<>>
Some(x) == <<x>>

\* Op applied to the value of e, e being evaluated once
Bind(e, Op(_)) == CHOOSE y \in {Op(x) : x \in {e}} : TRUE

Codes == {"USD", "usd", "EUR"}
Dates == {"latest", "d1"}
RowDates == {"d1", "d2"}

\* str.lower() and str.upper() on the currency codes
Lower(c) == CASE c = "USD" -> "usd" [] c = "EUR" -> "eur" [] OTHER -> c
Upper(c) == CASE c = "usd" -> "USD" [] c = "eur" -> "EUR" [] OTHER -> c

\* What the rate service answers to one GET: the status code and the rate the
\* payload holds for the target currency (None when the target is absent).
Response(s, r) == [status |-> s, rate |-> r]
Responses ==
    {Response(200, Some(2)), Response(200, None),
     Response(404, None), Response(400, Some(2))}

\* the default_rate values tried: none, and 5.0
Defaults == {None, Some(5)}

\* The arguments of one call as functools.cache keys them: a call that omits
\* default_rate and a call that passes it are different keys.
Keys ==
    [from : Codes, to : {"EUR"}, date : Dates, explicit : {TRUE}, dflt : Defaults]
    \cup
    [from : Codes, to : {"EUR"}, date : Dates, explicit : {FALSE}, dflt : {None}]

Return(v) == [kind |-> "return", val |-> v, err |-> "", names |-> <<>>]
Raise(e, n) == [kind |-> "raise", val |-> None, err |-> e, names |-> n]

----------------------------------------------------------------------------
(* currency.py: get_currency_rate *)

\* the test of the response's status, line 32
StatusOk(status) == status % 200 = 0

\* The body of get_currency_rate on a cache miss, given the response.
GetCurrencyRateBody(k, resp) ==
    LET from_currency == Lower(k.from)
        to_currency == Lower(k.to)
    IN  IF StatusOk(resp.status)
        THEN IF resp.rate = None /\ k.dflt = None
             THEN Raise("ValueError", <<Upper(from_currency), Upper(to_currency)>>)
             ELSE IF resp.rate # None THEN Return(resp.rate) ELSE Return(k.dflt)
        ELSE Return(k.dflt)

\* a wrapper that stores nothing
CacheStoreNothing(c, k, out) == c

\* functools.cache stores a call's result only when the call returns.
CacheStore(c, k, out) ==
    IF out.kind = "return" THEN (k :> out.val) @@ c ELSE c

\* One call through the @cache wrapper: [out, cache, fetched].
CachedCall(c, k, resp) ==
    IF k \in DOMAIN c
    THEN [out |-> Return(c[k]), cache |-> c, fetched |-> FALSE]
    ELSE LET out == GetCurrencyRateBody(k, resp)
         IN  [out |-> out, cache |-> CacheStore(c, k, out), fetched |-> TRUE]

\* what the trace keeps of a call
Called(k, r) == [key |-> k, fetched |-> r.fetched, out |-> r.out]

NoCall == [key |-> [from |-> "", to |-> "", date |-> "", explicit |-> FALSE, dflt |-> None],
           fetched |-> FALSE, resp |-> [status |-> 0, rate |-> None],
           out |-> Return(None), done |-> FALSE]

NoEval == [done |-> FALSE, cur |-> [convert_to |-> "", default_rate |-> None,
                                     strategy |-> ""],
           rows |-> <<>>, log |-> <<>>, raised |-> FALSE, rates |-> <<>>]

\* A direct call get_currency_rate(from, to, date[, default_rate]).
GetCurrencyRate ==
    /\ Len(trace) < MaxCalls
    /\ \E k \in Keys, resp \in Responses :
          LET r == CachedCall(cache, k, resp)
          IN  /\ cache' = r.cache
              /\ trace' = Append(trace, Called(k, r))
              /\ lastCall' = [key |-> k, fetched |-> r.fetched,
                              resp |-> IF r.fetched THEN resp ELSE NoCall.resp,
                              out |-> r.out, done |-> TRUE]
    /\ lastEval' = NoEval
    /\ UNCHANGED <<lastAmount, lastData, store, exports, lastExport>>

----------------------------------------------------------------------------
(* currency.py: get_currency_rate_batches and Currency.rate *)

Strategies == {"latest", "dynamic"}
Currencies == [convert_to : {"EUR"}, default_rate : Defaults, strategy : Strategies]
RateRows == [currency : {"USD", "EUR"}, date : RowDates]
Frames(S, n) == UNION {[1..m -> S] : m \in 1..n}

\* line 52: get_currency_rate(c, to_currency, d), default_rate not passed on
BatchKey(c, to_currency, d, default_rate) ==
    [from |-> c, to |-> to_currency, date |-> d, explicit |-> FALSE, dflt |-> None]

\* lines 89-94: get_currency_rate(x, convert_to, "latest", default_rate)
LatestKey(x, convert_to, default_rate) ==
    [from |-> x, to |-> convert_to, date |-> "latest", explicit |-> TRUE,
     dflt |-> default_rate]

\* The rows the .then(...) expression is evaluated on. polars evaluates every
\* branch of when/then/otherwise on the whole frame and applies the mask
\* afterwards, so map_elements / map_batches see every row.
ThenRows(cur, rows) == rows

\* The calls of get_currency_rate the .then(...) expression makes, in row order.
RateKeys(cur, rows) ==
    LET seen == ThenRows(cur, rows)
    IN  [i \in 1..Len(seen) |->
            IF cur.strategy = "dynamic"
            THEN BatchKey(seen[i].currency, cur.convert_to, seen[i].date,
                          cur.default_rate)
            ELSE LatestKey(seen[i].currency, cur.convert_to, cur.default_rate)]

\* The calls made one after the other, each through the cache; the first one
\* that raises ends the evaluation.
RECURSIVE RunCalls(_, _, _, _)
RunCalls(c, keys, resps, log) ==
    IF Len(log) = Len(keys)
    THEN [cache |-> c, log |-> log, raised |-> FALSE]
    ELSE LET i == Len(log) + 1
             Then(r) ==
                LET entry == [key |-> keys[i], fetched |-> r.fetched,
                              resp |-> IF r.fetched THEN resps[i] ELSE NoCall.resp,
                              out |-> r.out]
                IN  IF r.out.kind = "raise"
                    THEN [cache |-> r.cache, log |-> Append(log, entry),
                          raised |-> TRUE]
                    ELSE Bind(Append(log, entry),
                              LAMBDA l : RunCalls(r.cache, keys, resps, l))
         IN  Bind(CachedCall(c, keys[i], resps[i]), Then)

\* when(currency_col != convert_to).then(<fetched>).otherwise(1.0), row by row
RateOf(cur, row, fetched) ==
    IF row.currency # cur.convert_to THEN fetched ELSE Some(1)

\* Currency.rate evaluated on a frame: the calls, then the mask.
Min(a, b) == IF a <= b THEN a ELSE b

EvalRate ==
    /\ Len(trace) < MaxCalls
    /\ \E cur \in Currencies :
       \E rows \in Frames(RateRows, Min(MaxRows, MaxCalls - Len(trace))) :
       \E resps \in [1..Len(rows) -> Responses] :
        LET keys == RateKeys(cur, rows)
            run == RunCalls(cache, keys, resps, <<>>)
        IN  /\ cache' = run.cache
            /\ trace' = trace \o [i \in 1..Len(run.log) |->
                                    Called(run.log[i].key, run.log[i])]
            /\ lastEval' =
                  [done |-> TRUE, cur |-> cur, rows |-> rows, log |-> run.log,
                   raised |-> run.raised,
                   rates |-> IF run.raised THEN <<>>
                             ELSE [i \in 1..Len(rows) |->
                                     RateOf(cur, rows[i], run.log[i].out.val)]]
            /\ lastCall' = NoCall
            /\ UNCHANGED <<lastAmount, lastData, store, exports, lastExport>>

----------------------------------------------------------------------------
(* models.py: Account.amount on a textual column *)

\* A text is the sequence of its characters.
DigitChars == {"0", "1", "2", "3", "4", "5", "6", "7", "8", "9"}
DigitVal(ch) ==
    CASE ch = "0" -> 0 [] ch = "1" -> 1 [] ch = "2" -> 2 [] ch = "3" -> 3
      [] ch = "4" -> 4 [] ch = "5" -> 5 [] ch = "6" -> 6 [] ch = "7" -> 7
      [] ch = "8" -> 8 [] ch = "9" -> 9

\* every match of ch removed (str.replace_all)
RECURSIVE ReplaceAll(_, _)
ReplaceAll(s, ch) ==
    IF s = <<>> THEN <<>>
    ELSE IF Head(s) = ch THEN ReplaceAll(Tail(s), ch)
    ELSE <<Head(s)>> \o ReplaceAll(Tail(s), ch)

\* the first match of ch removed
RECURSIVE ReplaceFirst(_, _)
ReplaceFirst(s, ch) ==
    IF s = <<>> THEN <<>>
    ELSE IF Head(s) = ch THEN Tail(s)
    ELSE <<Head(s)>> \o ReplaceFirst(Tail(s), ch)

\* line 90: .str.replace(",", ""); polars' str.replace replaces the first match
StrReplace(s) == ReplaceFirst(s, ",")

Positions(s, ch) == {i \in 1..Len(s) : s[i] = ch}

\* The texts a strict cast to Float64 accepts, among those of the model: an
\* optional sign, digits, and at most one point with digits on both sides.
IsFloatText(s) ==
    LET body == IF s # <<>> /\ Head(s) = "-" THEN Tail(s) ELSE s
        points == Positions(body, ".")
    IN  /\ body # <<>>
        /\ \A i \in 1..Len(body) : body[i] \in DigitChars \cup {"."}
        /\ Cardinality(points) <= 1
        /\ \A i \in points : 1 < i /\ i < Len(body) /\ Len(body) - i <= 2

RECURSIVE DigitsValue(_)
DigitsValue(s) ==
    IF s = <<>> THEN 0 ELSE 10 * DigitsValue(SubSeq(s, 1, Len(s) - 1)) + DigitVal(s[Len(s)])

\* the number a float text stands for, in hundredths
FloatOf(s) ==
    LET neg == Head(s) = "-"
        body == IF neg THEN Tail(s) ELSE s
        points == Positions(body, ".")
        frac == IF points = {} THEN 0 ELSE Len(body) - (CHOOSE i \in points : TRUE)
        digits == ReplaceAll(body, ".")
        mag == DigitsValue(digits) * (IF frac = 0 THEN 100 ELSE IF frac = 1 THEN 10 ELSE 1)
    IN  IF neg THEN 0 - mag ELSE mag

\* .cast(pl.Float64), strict
CastFloat(s) ==
    IF IsFloatText(s) THEN Return(Some(FloatOf(s)))
    ELSE Raise("InvalidOperationError", <<>>)

\* lines 88-92: the amount column as a number
AmountValue(dtype, raw) ==
    IF dtype = "String" THEN CastFloat(StrReplace(raw)) ELSE Return(Some(raw))

\* The textual amounts tried: digits grouped by "," with at most two decimals.
AmountChars == {"1", "2", ",", "."}
SeparatedNumber(s) ==
    /\ IsFloatText(ReplaceAll(s, ","))
    /\ s[1] \in DigitChars
    /\ \A i \in Positions(s, ",") :
          /\ i < Len(s) /\ s[i + 1] \in DigitChars
          /\ \A j \in Positions(s, ".") : i < j
AmountTexts == {s \in Frames(AmountChars, MaxLen) : SeparatedNumber(s)}

NoAmount == [done |-> FALSE, text |-> <<>>, parsed |-> <<>>, out |-> Return(None)]

\* Account.amount evaluated on one value of a String amount column.
CoerceAmount ==
    \E text \in AmountTexts :
        /\ lastAmount' = [done |-> TRUE, text |-> text, parsed |-> StrReplace(text),
                          out |-> AmountValue("String", text)]
        /\ UNCHANGED <<cache, trace, lastCall, lastEval, lastData,
                       store, exports, lastExport>>

----------------------------------------------------------------------------
(* models.py: Account and AccountCollection *)

\* The accounts of the model, by id. Each source has the columns date,
\* description, amount and currency; dates and descriptions are text.
Txt(a, b, c, d) == [date |-> a, description |-> b, amount |-> c, currency |-> d]
SourceColumns == {"date", "description", "amount", "currency"}

BrokerCurrency ==
    [convert_to |-> "EUR", default_rate |-> Some(5), strategy |-> "latest"]

Checking ==
    [name |-> "Checking", date_col |-> "date", transaction_col |-> "description",
     amount_col |-> "amount", amount_dtype |-> "String", currency |-> None,
     rows |-> << Txt("2024-01-02", "Rent", <<"-", "1", ",", "2", "0", "0", ".", "0", "0">>, "EUR"),
                 Txt("2024-01-01", " Coffee ", <<"5", ".", "0", "0">>, "EUR") >>]
Savings ==
    [name |-> "Savings", date_col |-> "date", transaction_col |-> "description",
     amount_col |-> "amount", amount_dtype |-> "Float64", currency |-> None,
     rows |-> << Txt("2024-01-01", "Coffee", 500, "EUR"),
                 Txt("2024-01-01", "Coffee", 0 - 500, "EUR"),
                 Txt("2024-01-01", "Coffee", 500, "EUR") >>]
Broker ==
    [name |-> "Broker", date_col |-> "date", transaction_col |-> "description",
     amount_col |-> "amount", amount_dtype |-> "Float64",
     currency |-> Some(BrokerCurrency),
     rows |-> << Txt("2024-01-01", "Fee", 100, "USD"),
                 Txt("2024-01-02", "Fee", 100, "EUR") >>]

AccountIds == {"checking", "savings", "broker", "nodate", "nolabel", "noamount"}
Acct(id) ==
    CASE id = "checking" -> Checking
      [] id = "savings" -> Savings
      [] id = "broker" -> Broker
      [] id = "nodate" -> [Checking EXCEPT !.date_col = "when"]
      [] id = "nolabel" -> [Checking EXCEPT !.transaction_col = "memo"]
      [] id = "noamount" -> [Checking EXCEPT !.amount_col = "value"]

\* .str.to_datetime(date_col_format): the datetime a date text stands for
ParseDate(text) ==
    CASE text = "2024-01-01" -> "d1" [] text = "2024-01-02" -> "d2"
\* the order of the raw date texts
DateOrd(text) == CASE text = "2024-01-01" -> 1 [] text = "2024-01-02" -> 2
\* .str.strip_chars()
Strip(text) == CASE text = " Coffee " -> "Coffee" [] OTHER -> text

\* a get_data that builds its expressions without looking the columns up
GetDataUnchecked(a) == Return(None)

\* line 122: the columns get_data checks before it builds the expressions
CheckedCols(a) == <<a.date_col, a.transaction_col, a.transaction_col>>

\* Account.get_data(): the checks and the lookups of the schema made while the
\* lazy frame is built. Nothing is read or fetched here.
GetDataBuild(a) ==
    LET cols == CheckedCols(a)
        bad == {i \in 1..Len(cols) : cols[i] \notin SourceColumns}
    IN  IF bad # {}
        THEN Raise("AssertionError", <<cols[CHOOSE i \in bad : \A j \in bad : i <= j]>>)
        ELSE IF a.amount_col \notin SourceColumns   \* self.data_schema[self.amount_col]
        THEN Raise("KeyError", <<a.amount_col>>)
        ELSE Return(None)

\* the rows at the positions keep, in their order
Pick(rows, keep) ==
    [k \in 1..Cardinality(keep) |->
        rows[CHOOSE i \in keep : Cardinality({j \in keep : j <= i}) = k]]

\* .sort(date_col): a stable sort on the raw date column
SortByDate(rows) ==
    LET before(j, i) ==
            \/ DateOrd(rows[j].date) < DateOrd(rows[i].date)
            \/ DateOrd(rows[j].date) = DateOrd(rows[i].date) /\ j <= i
    IN  [k \in 1..Len(rows) |->
            rows[CHOOSE i \in 1..Len(rows) :
                    Cardinality({j \in 1..Len(rows) : before(j, i)}) = k]]

\* .unique(): one row of each kind (the first is kept here)
Unique(rows) ==
    Pick(rows, {i \in 1..Len(rows) : \A j \in 1..(i - 1) : rows[j] # rows[i]})

\* the responses of the service to this frame's calls, row by row
RowResponses(svc, keys) == [i \in 1..Len(keys) |-> svc[Lower(keys[i].from)]]

\* The frame an Account's get_data() stands for, collected: [out, rows, cache,
\* log]. The rate expression is evaluated on the sorted frame; a failed cast
\* or a failed rate lookup fails the collection.
\* the rows of a frame whose expressions have been evaluated: src the sorted
\* source, amounts the amount column as numbers, run the rate calls made
CollectedRows(a, c, src, amounts, run) ==
    LET rate(i) == IF a.currency = None THEN 1
                   ELSE RateOf(a.currency[1],
                               [currency |-> src[i].currency,
                                date |-> ParseDate(src[i].date)],
                               run.log[i].out.val)[1]
    IN  IF \E i \in 1..Len(src) : amounts[i].kind = "raise"
        THEN [out |-> Raise("InvalidOperationError", <<>>),
              rows |-> <<>>, cache |-> c, log |-> <<>>]
        ELSE IF run.raised
        THEN [out |-> run.log[Len(run.log)].out, rows |-> <<>>,
              cache |-> run.cache, log |-> run.log]
        ELSE [out |-> Return(None),
              rows |-> Unique([i \in 1..Len(src) |->
                          [account_name |-> a.name,
                           date |-> ParseDate(src[i].date),
                           transaction |-> Strip(src[i].description),
                           amount |-> amounts[i].val[1] * rate(i)]]),
              cache |-> run.cache, log |-> run.log]

AccountCollect(a, c, svc) ==
    LET missing == {a.date_col, a.transaction_col, a.amount_col} \ SourceColumns
        Rated(src) ==
            LET rateRows == [i \in 1..Len(src) |->
                                [currency |-> src[i].currency,
                                 date |-> ParseDate(src[i].date)]]
                keys == IF a.currency = None THEN <<>>
                        ELSE RateKeys(a.currency[1], rateRows)
            IN  Bind(RunCalls(c, keys, RowResponses(svc, keys), <<>>),
                     LAMBDA run :
                        Bind([i \in 1..Len(src) |->
                                 AmountValue(a.amount_dtype, src[i].amount)],
                             LAMBDA amounts : CollectedRows(a, c, src, amounts, run)))
    IN  IF missing # {}
        THEN [out |-> Raise("ColumnNotFoundError", <<CHOOSE m \in missing : TRUE>>),
              rows |-> <<>>, cache |-> c, log |-> <<>>]
        ELSE Bind(SortByDate(a.rows), Rated)

\* AccountCollection.get_data(): each member's get_data() in list order; the
\* first that raises ends it, and pl.concat refuses an empty list.
CollectionBuild(ids) ==
    LET bad == {i \in 1..Len(ids) : GetDataBuild(Acct(ids[i])).kind = "raise"}
    IN  IF bad # {}
        THEN GetDataBuild(Acct(ids[CHOOSE i \in bad : \A j \in bad : i <= j]))
        ELSE IF ids = <<>> THEN Raise("ValueError", <<>>)
        ELSE Return(None)

\* the frames' rows one frame after the other
RECURSIVE JoinAll(_)
JoinAll(frames) ==
    IF frames = <<>> THEN <<>> ELSE Head(frames) \o JoinAll(Tail(frames))

\* a concatenation that keeps one row of each kind
ConcatDistinct(frames) == Unique(JoinAll(frames))

\* pl.concat(frames, how="vertical")
Concat(frames) == JoinAll(frames)

\* The members collected one after the other: [out, parts, cache, log].
RECURSIVE CollectParts(_, _, _, _)
CollectParts(ids, c, svc, acc) ==
    IF Len(acc.parts) = Len(ids) THEN acc
    ELSE LET Then(r) ==
                Bind([out |-> r.out, parts |-> Append(acc.parts, r.rows),
                      cache |-> r.cache, log |-> acc.log \o r.log],
                     LAMBDA next :
                        IF r.out.kind = "raise" THEN next
                        ELSE CollectParts(ids, r.cache, svc, next))
         IN  Bind(AccountCollect(Acct(ids[Len(acc.parts) + 1]), c, svc), Then)

\* The collection's frame, collected: [out, parts, rows, cache, log].
CollectionCollect(ids, c, svc) ==
    LET Then(r) ==
            [out |-> r.out, parts |-> r.parts, cache |-> r.cache, log |-> r.log,
             rows |-> IF r.out.kind = "raise" THEN <<>> ELSE Concat(r.parts)]
    IN  Bind(CollectParts(ids, c, svc,
                 [out |-> Return(None), parts |-> <<>>, cache |-> c, log |-> <<>>]),
             Then)

Collections == UNION {[1..m -> AccountIds] : m \in 0..MaxAccounts}
\* What the service would answer during one operation, per source currency of
\* the URL. Only a collection with a Currency reaches the service.
Services == [{"usd", "eur"} -> {Response(200, Some(2)), Response(404, None)}]
Unreached == [c \in {"usd", "eur"} |-> Response(404, None)]
ServicesFor(ids) ==
    IF \E i \in 1..Len(ids) : Acct(ids[i]).currency # None THEN Services
    ELSE {Unreached}

NoData == [done |-> FALSE, ids |-> <<>>, out |-> Return(None), parts |-> <<>>,
           rows |-> <<>>]

\* accounts.get_data().collect(), as examples/load_account.py runs it
CollectionGetData ==
    \E ids \in Collections :
    \E svc \in ServicesFor(ids) :
    \E built \in {CollectionBuild(ids)} :
    \E got \in {IF built.kind = "raise" THEN NoData
                 ELSE CollectionCollect(ids, cache, svc)} :
            /\ cache' = IF built.kind = "raise" THEN cache ELSE got.cache
            /\ lastData' =
                  IF built.kind = "raise"
                  THEN [NoData EXCEPT !.done = TRUE, !.ids = ids, !.out = built]
                  ELSE [done |-> TRUE, ids |-> ids, out |-> got.out,
                        parts |-> got.parts, rows |-> got.rows]
            /\ UNCHANGED <<trace, lastCall, lastEval, lastAmount,
                           store, exports, lastExport>>

\* a new process: the memo of get_currency_rate starts empty
ProcessStart ==
    /\ cache # <<>>
    /\ cache' = <<>>
    /\ UNCHANGED <<trace, lastCall, lastEval, lastAmount, lastData,
                   store, exports, lastExport>>

----------------------------------------------------------------------------
(* export/bagels.py *)

\* A datetime as the record table keeps it (text), and back
\* (process_record_table: .str.to_datetime()).
StoredDate(d) ==
    CASE d = "d1" -> "2024-01-01 00:00:00.000000"
      [] d = "d2" -> "2024-01-02 00:00:00.000000"
ParseStored(text) ==
    CASE text = "2024-01-01 00:00:00.000000" -> "d1"
      [] text = "2024-01-02 00:00:00.000000" -> "d2"

Abs(x) == IF x < 0 THEN 0 - x ELSE x

\* prepare_account_names: the distinct account_name values of the data
AccountNames(data) ==
    Pick([i \in 1..Len(data) |-> data[i].account_name],
         {i \in 1..Len(data) :
            \A j \in 1..(i - 1) : data[j].account_name # data[i].account_name})

\* an insert into a table whose id is the row number
Insert(table, name) == Append(table, [id |-> Len(table) + 1, name |-> name])

\* create_accounts: each name the account table lacks is inserted
RECURSIVE CreateAccounts(_, _)
CreateAccounts(table, names) ==
    IF names = <<>> THEN table
    ELSE CreateAccounts(
            IF \E i \in 1..Len(table) : table[i].name = Head(names) THEN table
            ELSE Insert(table, Head(names)),
            Tail(names))

\* create_cateogry: a row is inserted, then the id of the first row of that
\* name is returned
CreateCategory(table, name) ==
    LET after == Insert(table, name)
    IN  [table |-> after,
         id |-> after[CHOOSE i \in 1..Len(after) :
                        /\ after[i].name = name
                        /\ \A j \in 1..(i - 1) : after[j].name # name].id]

\* prepare_dataframe: the data joined to the account table on the name, in the
\* shape of the record table
PrepareDataframe(data, account_table, category_id) ==
    LET n == Len(account_table)
        pair(p) == [i |-> ((p - 1) \div n) + 1, j |-> ((p - 1) % n) + 1]
        joined == {p \in 1..(Len(data) * n) :
                      data[pair(p).i].account_name = account_table[pair(p).j].name}
        all == [p \in 1..(Len(data) * n) |->
                   [label |-> data[pair(p).i].transaction,
                    amount |-> Abs(data[pair(p).i].amount),
                    date |-> data[pair(p).i].date,
                    accountId |-> account_table[pair(p).j].id,
                    categoryId |-> category_id,
                    isIncome |-> data[pair(p).i].amount > 0]]
    IN  Pick(all, joined)

\* process_record_table: the stored rows in the shape of the dataframe
ProcessRecordTable(record_table) ==
    [i \in 1..Len(record_table) |->
        [label |-> record_table[i].label,
         amount |-> record_table[i].amount,
         date |-> ParseStored(record_table[i].date),
         accountId |-> record_table[i].accountId,
         categoryId |-> record_table[i].categoryId,
         isIncome |-> record_table[i].isIncome = 1]]

SameTriple(a, b) == a.label = b.label /\ a.amount = b.amount /\ a.date = b.date

\* df.join(record_table, how="anti", on=["label", "amount", "date"])
AntiJoin(df, records) ==
    Pick(df, {i \in 1..Len(df) :
                \A j \in 1..Len(records) : ~SameTriple(df[i], records[j])})

\* the write made when rows remain
WritesWhenRowsRemain(df) == Len(df) # 0

\* line 200: the test that decides the write, df.is_empty()
WritesWhen(df) == Len(df) = 0

\* df.write_database("record", conn, if_table_exists="append")
WriteDatabase(record_table, df) ==
    record_table \o
    [i \in 1..Len(df) |->
        [label |-> df[i].label, amount |-> df[i].amount,
         date |-> StoredDate(df[i].date), accountId |-> df[i].accountId,
         categoryId |-> df[i].categoryId,
         isIncome |-> IF df[i].isIncome THEN 1 ELSE 0,
         by |-> "finwrap"]]

FetchEvents(log) ==
    [k \in 1..Cardinality({i \in 1..Len(log) : log[i].fetched}) |-> "fetch"]

NoExport ==
    [done |-> FALSE, ids |-> <<>>, installed |-> TRUE, out |-> Return(None),
     events |-> <<>>, data |-> <<>>, existing |-> <<>>, joined |-> FALSE, prepared |-> <<>>,
     unmatched |-> <<>>, writeIssued |-> FALSE, written |-> <<>>,
     repeat |-> FALSE]

\* save_to_bagel from the connection on (lines 172-206), the data collected:
\* the store after it and the record of what was done.
Reconcile(st, ids, got, again, before) ==
    LET accounts == CreateAccounts(st.account, AccountNames(got.rows))
        cat == CreateCategory(st.category, "imported")
        df == PrepareDataframe(again.rows, accounts, cat.id)
        joined == Len(st.record) > 0
        unmatched == IF joined THEN AntiJoin(df, ProcessRecordTable(st.record))
                     ELSE df
        writes == WritesWhen(unmatched)
    IN  [store |-> [account |-> accounts, category |-> cat.table,
                    record |-> IF writes THEN WriteDatabase(st.record, unmatched)
                               ELSE st.record],
         last |-> [done |-> TRUE, ids |-> ids, installed |-> TRUE,
                   out |-> Return(None),
                   events |-> before \o <<"connect", "create_accounts",
                                 "create_category", "read_account", "read_record">>
                              \o (IF writes THEN <<"write">> ELSE <<>>),
                   data |-> again.rows, existing |-> st.record,
                   joined |-> joined, prepared |-> df, unmatched |-> unmatched,
                   writeIssued |-> writes,
                   written |-> IF writes THEN unmatched ELSE <<>>,
                   repeat |-> FALSE]]

Failed(ids, installed, out, events) ==
    [NoExport EXCEPT !.done = TRUE, !.ids = ids, !.installed = installed,
                     !.out = out, !.events = events]

\* save_to_bagel(accounts). The configuration is the one of the first call, and
\* the bagels binary is installed or not from the first call on.
SaveToBagel ==
    /\ exports < MaxExports
    /\ \E ids \in IF lastExport.done THEN {lastExport.ids} ELSE Collections :
       \E located \in IF lastExport.done THEN {lastExport.installed} ELSE BOOLEAN :
       \E svc \in ServicesFor(ids) :
       \E built \in {CollectionBuild(ids)} :
          IF built.kind = "raise"
          THEN \* line 166: account.get_data() raises
               /\ lastExport' = Failed(ids, located, built, <<>>)
               /\ UNCHANGED <<cache, store>>
          ELSE IF ~located
          THEN \* line 167: locate_database() finds no bagels binary
               /\ lastExport' = Failed(ids, located,
                                       Raise("BinaryNotFoundError", <<>>),
                                       <<"locate">>)
               /\ UNCHANGED <<cache, store>>
          ELSE \E got \in {CollectionCollect(ids, cache, svc)} :
               IF got.out.kind = "raise"
               THEN \* line 170: the data cannot be collected
                    /\ lastExport' = Failed(ids, located, got.out,
                                        <<"locate", "reflect">> \o FetchEvents(got.log))
                    /\ cache' = got.cache
                    /\ UNCHANGED store
               ELSE \E again \in {CollectionCollect(ids, got.cache, svc)} :
                    \E r \in {Reconcile(store, ids, got, again,
                                  <<"locate", "reflect">> \o FetchEvents(got.log))} :
                       /\ store' = r.store
                       /\ cache' = again.cache
                       /\ lastExport' =
                            [r.last EXCEPT
                               !.events = @ \o FetchEvents(again.log),
                               !.repeat = /\ lastExport.done
                                          /\ lastExport.out.kind = "return"
                                          /\ lastExport.data = again.rows]
    /\ exports' = exports + 1
    /\ UNCHANGED <<trace, lastCall, lastEval, lastAmount, lastData>>

\* The records a user of Bagels enters by hand, on the account "Cash".
ManualRecords ==
    {[label |-> "Coffee", amount |-> 500, date |-> StoredDate("d1")],
     [label |-> "Rent", amount |-> 120000, date |-> StoredDate("d2")]}

BagelsAddRecord ==
    /\ Cardinality({i \in 1..Len(store.record) : store.record[i].by = "bagels"})
          < MaxRecords
    /\ \E m \in ManualRecords :
       \E accounts \in {CreateAccounts(store.account, <<"Cash">>)} :
          store' = [store EXCEPT
              !.account = accounts,
              !.record = Append(@,
                  [label |-> m.label, amount |-> m.amount, date |-> m.date,
                   accountId |-> accounts[CHOOSE i \in 1..Len(accounts) :
                                            accounts[i].name = "Cash"].id,
                   categoryId |-> 0, isIncome |-> 0, by |-> "bagels"])]
    /\ UNCHANGED <<cache, trace, lastCall, lastEval, lastAmount, lastData,
                   exports, lastExport>>

Init ==
    /\ cache = <<>>
    /\ trace = <<>>
    /\ lastCall = NoCall
    /\ lastEval = NoEval
    /\ lastAmount = NoAmount
    /\ lastData = NoData
    /\ store = [account |-> <<>>, category |-> <<>>, record |-> <<>>]
    /\ exports = 0
    /\ lastExport = NoExport

\* Direct calls of the resolver.
NextRate == GetCurrencyRate
SpecRate == Init /\ [][NextRate]_vars

\* Rate expressions evaluated on frames.
NextEval == EvalRate
SpecEval == Init /\ [][NextEval]_vars

\* Amount coercion.
NextAmount == CoerceAmount
SpecAmount == Init /\ [][NextAmount]_vars

\* Collections of accounts read and collected.
NextData == CollectionGetData \/ ProcessStart
SpecData == Init /\ [][NextData]_vars

\* Exports to Bagels, between which records are entered in Bagels by hand and
\* the process is started anew.
NextExport == SaveToBagel \/ BagelsAddRecord \/ ProcessStart
SpecExport == Init /\ [][NextExport]_vars

----------------------------------------------------------------------------
(* Claims about the rate resolver *)

\* the (from_currency, to_currency, date, default_rate) a call is made with
InputTuple(k) == <<k.from, k.to, k.date, k.dflt>>

\* C4, as stated: get_currency_rate is memoized per input tuple, whatever the
\* outcome of the first call. Of two calls with the same (from, to, date,
\* default), the later one returns what the earlier one did and fetches nothing.
C4_MemoizedWhateverOutcome ==
    \A i, j \in 1..Len(trace) :
        (i < j /\ InputTuple(trace[i].key) = InputTuple(trace[j].key))
            => /\ trace[j].out = trace[i].out
               /\ ~trace[j].fetched

\* C4, amended: of two calls that pass the same arguments in the same form
\* (default_rate omitted, or given), once the earlier one has returned a value
\* the later one returns that value and fetches nothing. A call that raised is
\* not memoized.
C4_MemoizedOnceReturned ==
    \A i, j \in 1..Len(trace) :
        (i < j /\ trace[i].key = trace[j].key /\ trace[i].out.kind = "return")
            => /\ trace[j].out = trace[i].out
               /\ ~trace[j].fetched

\* C4 witness: a call that fetched and returned, then the same call again.
C4_Witness ==
    \E i, j \in 1..Len(trace) :
        /\ i < j
        /\ trace[i].key = trace[j].key
        /\ trace[i].fetched
        /\ trace[i].out.kind = "return"
        /\ trace[j].out.kind = "return"

Is2xx(status) == status \div 100 = 2
NoRate(resp) == resp.rate = None \/ ~Is2xx(resp.status)

\* C5: when the service yields no rate for the pair (target absent from the
\* payload, or a response outside the 2xx class), the call returns default_rate
\* if one was given and otherwise raises naming both codes; it never returns
\* None.
C5_NoRatePolicy ==
    (lastCall.done /\ lastCall.fetched) =>
        /\ NoRate(lastCall.resp) =>
              IF lastCall.key.dflt # None
              THEN lastCall.out = Return(lastCall.key.dflt)
              ELSE /\ lastCall.out.kind = "raise"
                   /\ lastCall.out.names =
                        <<Upper(lastCall.key.from), Upper(lastCall.key.to)>>
        /\ lastCall.out # Return(None)

\* C6: under strategy "latest", a row whose currency is the target resolves
\* to rate 1.0 and the evaluation makes no get_currency_rate call (so no
\* fetch) for that row's currency.
C6_TargetRowsNoFetch ==
    (lastEval.done /\ lastEval.cur.strategy = "latest") =>
        \A i \in 1..Len(lastEval.rows) :
            lastEval.rows[i].currency = lastEval.cur.convert_to =>
                /\ ~lastEval.raised => lastEval.rates[i] = Some(1)
                /\ \A n \in 1..Len(lastEval.log) :
                      lastEval.log[n].key.from # lastEval.rows[i].currency

\* C7: under strategy "dynamic" with a default_rate configured, the default
\* reaches every get_currency_rate call, and a row whose (currency, date) has
\* no rate at the service gets the default as its rate.
C7_DynamicDefault ==
    (/\ lastEval.done
     /\ lastEval.cur.strategy = "dynamic"
     /\ lastEval.cur.default_rate # None) =>
        \A n \in 1..Len(lastEval.log) :
            /\ lastEval.log[n].key.dflt = lastEval.cur.default_rate
            /\ (/\ lastEval.rows[n].currency # lastEval.cur.convert_to
                /\ lastEval.log[n].fetched
                /\ NoRate(lastEval.log[n].resp)) =>
                   /\ ~lastEval.raised
                   /\ lastEval.rates[n] = lastEval.cur.default_rate

----------------------------------------------------------------------------
(* Claims about the Account expressions *)

\* C9: a textual amount has every thousands separator stripped before it is
\* parsed, however many it holds: no "," is left in the parsed text and the
\* amount is the number the digits spell.
C9_AllSeparatorsStripped ==
    lastAmount.done =>
        /\ Positions(lastAmount.parsed, ",") = {}
        /\ lastAmount.out = Return(Some(FloatOf(ReplaceAll(lastAmount.text, ","))))

\* the required columns an account's configuration names that its source lacks
MissingRequired(a) == {a.date_col, a.transaction_col, a.amount_col} \ SourceColumns

\* C8: when the date, transaction or amount column an Account names is absent
\* from its source, get_data() raises, and save_to_bagel fails there: before
\* any rate fetch, locate, connection or write.
C8_MissingColumnRaisesFirst ==
    (/\ lastExport.done
     /\ \E i \in 1..Len(lastExport.ids) : MissingRequired(Acct(lastExport.ids[i])) # {})
        => /\ lastExport.out.kind = "raise"
           /\ lastExport.out.err \in {"AssertionError", "KeyError"}
           /\ lastExport.events = <<>>

\* C8 witness: an export whose second account lacks its amount column, the
\* first one being an account with a Currency.
C8_Witness ==
    /\ lastExport.done
    /\ lastExport.ids = <<"broker", "noamount">>
    /\ lastExport.out.kind = "raise"

RECURSIVE SumLen(_)
SumLen(frames) == IF frames = <<>> THEN 0 ELSE Len(Head(frames)) + SumLen(Tail(frames))
Count(rows, row) == Cardinality({i \in 1..Len(rows) : rows[i] = row})
RECURSIVE SumCount(_, _)
SumCount(frames, row) ==
    IF frames = <<>> THEN 0 ELSE Count(Head(frames), row) + SumCount(Tail(frames), row)

\* C10: AccountCollection.get_data() holds the rows of each member's
\* get_data(), in list order: as many rows as the members have together, and
\* each row as many times as the members report it.
C10_Concatenation ==
    (lastData.done /\ lastData.out.kind = "return") =>
        /\ Len(lastData.parts) = Len(lastData.ids)
        /\ \A i \in 1..Len(lastData.ids) :
              Acct(lastData.ids[i]).currency = None =>
                 lastData.parts[i] =
                    AccountCollect(Acct(lastData.ids[i]), <<>>, Unreached).rows
        /\ Len(lastData.rows) = SumLen(lastData.parts)
        /\ \A k \in 1..Len(lastData.rows) :
              Count(lastData.rows, lastData.rows[k])
                 = SumCount(lastData.parts, lastData.rows[k])
        /\ \A i \in 1..Len(lastData.parts) :
              SubSeq(lastData.rows,
                     SumLen(SubSeq(lastData.parts, 1, i - 1)) + 1,
                     SumLen(SubSeq(lastData.parts, 1, i))) = lastData.parts[i]

\* C10 witness: a collection whose frame holds the same row twice, reported by
\* two of its accounts.
C10_Witness ==
    /\ lastData.done
    /\ lastData.out.kind = "return"
    /\ \E i, j \in 1..Len(lastData.rows) :
          i < j /\ lastData.rows[i] = lastData.rows[j]

----------------------------------------------------------------------------
(* Claims about the export *)

\* C1: on a store that holds records, the rows save_to_bagel appends are the
\* prepared rows whose (label, amount, date) matches no stored record; a write
\* is issued when such rows remain and none is issued otherwise.
C1_UnmatchedRowsWritten ==
    (/\ lastExport.done
     /\ lastExport.out.kind = "return"
     /\ Len(lastExport.existing) > 0) =>
        LET new == AntiJoin(lastExport.prepared,
                            ProcessRecordTable(lastExport.existing))
        IN  /\ lastExport.written = new
            /\ lastExport.writeIssued <=> (new # <<>>)

\* C2: on a store without records the anti-join is skipped and every
\* prepared row is appended to the record table.
C2_EmptyStoreAllWritten ==
    (/\ lastExport.done
     /\ lastExport.out.kind = "return"
     /\ Len(lastExport.existing) = 0) =>
        /\ ~lastExport.joined
        /\ lastExport.written = lastExport.prepared

ImportedRows == {i \in 1..Len(store.category) : store.category[i].name = "imported"}

\* C11: the default category is created only if absent. Once an export has
\* returned the category table holds exactly one row named "imported",
\* however many exports ran, and the rows the export prepared carry that
\* row's id as their categoryId.
C11_DefaultCategoryOnce ==
    (lastExport.done /\ lastExport.out.kind = "return") =>
        /\ Cardinality(ImportedRows) = 1
        /\ \A k \in 1..Len(lastExport.prepared) :
              \A i \in ImportedRows :
                 lastExport.prepared[k].categoryId = store.category[i].id

====
